---- MODULE Spec2Model ----
(***************************************************************************)
(* History and live-preview state machine of the image editor:             *)
(*   Image            (models/image.py)                                    *)
(*   FilterProcessor subclasses (processors/image_processor.py)            *)
(*   FilterManager    (managers/filter_manager.py)                         *)
(*   ImageEditorApp   (gui/main_window.py), the handlers of the buttons    *)
(*                    and sliders.                                         *)
(*                                                                         *)
(* An image buffer is a numpy array of shape (h, w, 3).  The model keeps   *)
(* the buffers whose pixels all carry the same BGR triple: a buffer is     *)
(* [w, h, px] with px = <<b, g, r>>.  On such buffers every transform of   *)
(* the catalogue is computed exactly (a normalised Gaussian kernel and a   *)
(* bilinear interpolation of a constant image give the constant back,      *)
(* Canny finds no edge).  A rotation by an angle outside rotation_map      *)
(* fills the uncovered border with 0: its result, and what the transforms  *)
(* make of it, is a buffer [w, h, made] that carries its shape and the     *)
(* transform that made it instead of pixels.                               *)
(* Floating-point parameters are kept as integers: a contrast value is in  *)
(* tenths (13 is the float nearest 1.3), a resize scale in percent (57 is  *)
(* the float nearest 0.57); products are rounded as IEEE 754 rounds them.  *)
(* The image files on disk are part of the state: "Save" and "Save As"     *)
(* write them and "Open" decodes what they hold.                           *)
(* A tk.Scale runs its command when the widget is redrawn, from an idle    *)
(* callback of the event loop: pending lists the sliders whose redraw is   *)
(* queued, in the order the redraws were queued (by an Expose event or by  *)
(* a new value), each with the flag that makes the redraw call the         *)
(* command.  The redraws run when the event loop is idle, inside           *)
(* update_idletasks, and while a dialog is open; a dialog can return with  *)
(* the redraws queued by the Expose events that came as it closed.         *)
(*                                                                         *)
(* Spec is the application; SpecFilters calls the apply methods of the     *)
(* filters directly on drawn arguments; SpecProcessor is the standalone    *)
(* ImageProcessor class of test_oops_concepts.py.                          *)
(***************************************************************************)
EXTENDS Integers, Sequences, FiniteSets, TLC

\* ------------------------------------------------------------- bounds ----
\* Number of handler calls explored after the application started.
MaxSteps == 5
\* Longest sequence of calls the round-trip properties compose.
MaxRun == 2
\* Blur intensities range over -MaxIntensity..MaxIntensity.
MaxIntensity == 8

\* ------------------------------------------------------------ values -----
\* Python's None.
None == [isNone |-> TRUE]

Min(a, b) == IF a < b THEN a ELSE b
Max(a, b) == IF a > b THEN a ELSE b

\* numpy.clip(v, 0, 255)
clip(v) == Max(0, Min(255, v))

\* A buffer of shape (h, w, 3) whose pixels all equal px = <<b, g, r>>.
Buf(w, h, px) == [w |-> w, h |-> h, px |-> px]

\* The buffer is one whose pixels are all equal and known.
Uniform(image) == "px" \in DOMAIN image

\* A buffer of shape (h, w, 3) whose pixels are not all equal: it carries
\* the transform that made it (the class, the arguments and the buffer it
\* was given) in place of its pixels.
Opaque(w, h, made) == [w |-> w, h |-> h, made |-> made]

Pow2(n) == 2 ^ n

\* int.bit_length()
RECURSIVE BitLength(_)
BitLength(n) == IF n = 0 THEN 0 ELSE 1 + BitLength(n \div 2)

\* The least k with value * 2^k >= 10 * 2^23, which is between 2^26 and
\* 2^27.
float32_scale(value) ==
    IF value * Pow2(27 - BitLength(value)) >= 10 * Pow2(23)
    THEN 27 - BitLength(value)
    ELSE 28 - BitLength(value)

\* num / den rounded to the nearest integer, ties to even.
rint(num, den) ==
    IF 2 * (num % den) < den THEN num \div den
    ELSE IF 2 * (num % den) > den THEN num \div den + 1
    ELSE num \div den + ((num \div den) % 2)

\* numpy.float32(value / 10), value >= 1 in tenths: the float m / 2^k with a
\* significand m of 24 bits, value / 10 rounded to nearest, ties to even.
float32(value) ==
    [k |-> float32_scale(value),
     m |-> rint(value * Pow2(float32_scale(value)), 10)]

\* The bits a product int + rem / 2^k has beyond the 24 of a float32.
float32_dropped(int, rem, k) ==
    (IF int > 0 THEN k + BitLength(int) ELSE BitLength(rem)) - 24

\* int + rem / 2^k rounded to 24 bits (ties to even), then truncated: the
\* rounding reaches the next integer when the bits dropped are at least
\* half a unit below it.
float32_trunc(int, rem, k) ==
    IF /\ float32_dropped(int, rem, k) >= 1
       /\ rem >= Pow2(k) - Pow2(float32_dropped(int, rem, k) - 1)
    THEN int + 1 ELSE int

\* (hi * 4096 + lo) / 2^k as an integer part and a remainder.
float32_parts(hi, lo, k) ==
    float32_trunc(hi \div Pow2(k - 12), (hi % Pow2(k - 12)) * 4096 + lo, k)

\* px * m / 2^k; px * m is split in two halves of 12 bits to stay within
\* 32-bit integers.
float32_product(px, m, k) ==
    float32_parts(px * (m \div 4096) + (px * (m % 4096)) \div 4096,
                  (px * (m % 4096)) % 4096, k)

\* int(numpy.float32(px) * numpy.float32(value / 10)) for a sample px in
\* 0..255: the product of the two floats rounded to 24 bits (ties to
\* even), then truncated.
float32_mul(px, value) == float32_product(px, float32(value).m, float32(value).k)

\* The exponent of the float nearest scale / 100, scale >= 1 in percent.
RECURSIVE float_exponent(_)
float_exponent(scale) ==
    IF scale >= 100 THEN BitLength(scale \div 100) - 1
    ELSE float_exponent(2 * scale) - 1

\* 2^k modulo 100, which has period 20 from k = 2 on.
RECURSIVE Pow2Mod100(_)
Pow2Mod100(k) == IF k < 22 THEN (2 ^ k) % 100 ELSE Pow2Mod100(k - 20)

\* int(size * (scale / 100.0)), size a number of pixels and scale in
\* percent: the product of size and the float nearest scale / 100, rounded
\* to 53 bits, then truncated.  It is below the exact product only where
\* that is an integer N, the float is below scale / 100 (by r / 100 units of
\* its last place) and the error size * r / 100 exceeds half the distance
\* from N to the float before it.
float_mul(size, scale) ==
    IF size <= 0 \/ scale <= 0 THEN 0
    ELSE IF (size * scale) % 100 # 0 THEN (size * scale) \div 100
    ELSE LET N == (size * scale) \div 100
             k == 52 - float_exponent(scale)
             r == (scale * Pow2Mod100(k)) % 100
             x == IF N = Pow2(BitLength(N) - 1) THEN k + BitLength(N) - 54
                  ELSE k + BitLength(N) - 53
         IN IF r = 0 \/ r >= 50 THEN N
            ELSE IF x < 1 THEN N - 1
            ELSE IF x > 30 THEN N
            ELSE IF (size * r) \div 100 > Pow2(x - 1) THEN N - 1 ELSE N

\* kwargs.get(name, default) / a keyword parameter with its default.
Param(kw, name, default) == IF name \in DOMAIN kw THEN kw[name] ELSE default

\* No keyword arguments.
NoKw == [x \in {} |-> 0]

\* The image files on disk when the application starts: path -> the buffer
\* the file decodes to.
Disk == [p \in {"a.png"} |-> Buf(4, 2, <<40, 120, 200>>)]

\* cv2.imread on the file system fs: the decoded content of the file, None
\* for a file that does not exist or cannot be decoded.
imread(fs, filepath) ==
    IF filepath \in DOMAIN fs THEN fs[filepath] ELSE None

\* The extensions cv2.imwrite has an encoder for, among those of the paths
\* explored; PNG is lossless, the file decodes to the buffer written.
has_encoder(filepath) == filepath \in {"a.png"}

\* cv2.imwrite(filepath, image): raises for an extension without encoder;
\* otherwise returns True after writing the file, or False, writing nothing,
\* when the file cannot be written (written tells which).
imwrite(fs, filepath, image, written) ==
    IF ~has_encoder(filepath) THEN [raised |-> TRUE, ret |-> FALSE, fs |-> fs]
    ELSE IF written
         THEN [raised |-> FALSE, ret |-> TRUE,
               fs |-> [p \in DOMAIN fs \cup {filepath} |->
                          IF p = filepath THEN image ELSE fs[p]]]
         ELSE [raised |-> FALSE, ret |-> FALSE, fs |-> fs]

\* ------------------------------------------- processors/image_processor --
\* ImageProcessor.validate_image: image.size > 0
validate_image(image) == image # None /\ image.w * image.h * 3 > 0

\* ImageProcessor.convert_to_uint8 on one sample of a non-uint8 array:
\* clip, then astype(uint8) (the samples are integers or non-negative).
convert_to_uint8(v) == clip(v)

\* cv2.cvtColor(BGR2GRAY) on one 8-bit pixel, 15-bit fixed point.
BGR2GRAY(px) == (3735 * px[1] + 19235 * px[2] + 9798 * px[3] + 16384) \div 32768

\* A transform either returns a buffer or raises.
Raise == [raised |-> TRUE]

\* GrayscaleFilter.apply
GrayscaleFilter(image) ==
    IF ~validate_image(image) THEN Raise
    ELSE IF ~Uniform(image)
         THEN Opaque(image.w, image.h, [op |-> "GrayscaleFilter", image |-> image])
    ELSE LET y == BGR2GRAY(image.px) IN Buf(image.w, image.h, <<y, y, y>>)

\* The kernel size without the lower limit of 1.
kernel_size_no_floor(intensity) ==
    IF intensity % 2 = 1 THEN intensity ELSE intensity + 1

\* The kernel size BlurFilter.apply passes to cv2.GaussianBlur.
kernel_size(intensity) ==
    Max(1, IF intensity % 2 = 1 THEN intensity ELSE intensity + 1)

\* BlurFilter.apply: cv2.GaussianBlur wants an odd positive kernel size; a
\* normalised Gaussian kernel leaves a constant image as it is, and a kernel
\* of one sample leaves every image as it is.
BlurFilter(image, intensity) ==
    IF ~validate_image(image) THEN Raise
    ELSE IF kernel_size(intensity) % 2 # 1 \/ kernel_size(intensity) < 1 THEN Raise
    ELSE IF Uniform(image) \/ kernel_size(intensity) = 1 THEN image
    ELSE Opaque(image.w, image.h,
                [op |-> "BlurFilter", kernel_size |-> kernel_size(intensity),
                 image |-> image])

\* EdgeDetectionFilter.apply: Canny of a constant image is all zero.
EdgeDetectionFilter(image, threshold1, threshold2) ==
    IF ~validate_image(image) THEN Raise
    ELSE IF ~Uniform(image)
         THEN Opaque(image.w, image.h,
                     [op |-> "EdgeDetectionFilter", threshold1 |-> threshold1,
                      threshold2 |-> threshold2, image |-> image])
    ELSE Buf(image.w, image.h, <<0, 0, 0>>)

\* An integer as numpy.int16 holds it: the arithmetic wraps around, and
\* the values of the type are those it leaves as they are.
int16(v) == ((v + 32768) % 65536) - 32768

\* BrightnessAdjustment.apply under numpy 1, value outside int16:
\* image.astype(np.int16) + value is computed in a wider integer type and
\* does not wrap.
BrightnessAdjustment_widened(image, value) ==
    IF ~validate_image(image) THEN Raise
    ELSE IF ~Uniform(image)
         THEN Opaque(image.w, image.h,
                     [op |-> "BrightnessAdjustment", value |-> value,
                      image |-> image])
    ELSE Buf(image.w, image.h,
             <<convert_to_uint8(image.px[1] + value),
               convert_to_uint8(image.px[2] + value),
               convert_to_uint8(image.px[3] + value)>>)

\* BrightnessAdjustment.apply: the sum is computed in int16 and wraps
\* around before it is clipped.  A value outside int16 raises OverflowError
\* (numpy 2 does not convert it; numpy 1 is BrightnessAdjustment_widened).
BrightnessAdjustment(image, value) ==
    IF ~validate_image(image) THEN Raise
    ELSE IF int16(value) # value THEN Raise
    ELSE IF ~Uniform(image)
         THEN IF value = 0 THEN image
              ELSE Opaque(image.w, image.h,
                          [op |-> "BrightnessAdjustment", value |-> value,
                           image |-> image])
    ELSE Buf(image.w, image.h,
             <<convert_to_uint8(int16(image.px[1] + value)),
               convert_to_uint8(int16(image.px[2] + value)),
               convert_to_uint8(int16(image.px[3] + value))>>)

\* What BrightnessAdjustment.apply gives under the numpy versions the
\* repository runs with (it names none): they differ for a value outside
\* int16 only.
BrightnessAdjustment_builds(image, value) ==
    IF int16(value) = value THEN {BrightnessAdjustment(image, value)}
    ELSE {BrightnessAdjustment(image, value),
          BrightnessAdjustment_widened(image, value)}

\* ContrastAdjustment.apply, value >= 1 in tenths: the samples are
\* multiplied as float32, clipped and truncated.
ContrastAdjustment(image, value) ==
    IF ~validate_image(image) THEN Raise
    ELSE IF ~Uniform(image)
         THEN IF value = 10 THEN image
              ELSE Opaque(image.w, image.h,
                          [op |-> "ContrastAdjustment", value |-> value,
                           image |-> image])
    ELSE Buf(image.w, image.h,
             <<convert_to_uint8(float32_mul(image.px[1], value)),
               convert_to_uint8(float32_mul(image.px[2], value)),
               convert_to_uint8(float32_mul(image.px[3], value))>>)

\* RotationFilter.apply: cv2.rotate for the angles of rotation_map (90 and
\* 270 swap width and height); any other angle is an affine warp about the
\* centre into a buffer of the same size, the uncovered part filled with 0.
\* The warp gives the image back when the angle is a whole turn, when the
\* image has one pixel and when the image is black already.
RotationFilter(image, angle) ==
    IF ~validate_image(image) THEN Raise
    ELSE IF angle \in {90, 270}
         THEN IF Uniform(image) THEN Buf(image.h, image.w, image.px)
              ELSE Opaque(image.h, image.w,
                          [op |-> "RotationFilter", angle |-> angle, image |-> image])
    ELSE IF angle = 180
         THEN IF Uniform(image) THEN image
              ELSE Opaque(image.w, image.h,
                          [op |-> "RotationFilter", angle |-> angle, image |-> image])
    ELSE IF angle % 360 = 0 \/ (image.w = 1 /\ image.h = 1) THEN image
    ELSE IF Uniform(image) /\ image.px = <<0, 0, 0>> THEN image
    ELSE Opaque(image.w, image.h,
                [op |-> "RotationFilter", angle |-> angle, image |-> image])

\* FlipFilter.apply: every direction mirrors, which keeps a constant image.
FlipFilter(image, direction) ==
    IF ~validate_image(image) THEN Raise
    ELSE IF ~Uniform(image)
         THEN Opaque(image.w, image.h,
                     [op |-> "FlipFilter", direction |-> direction, image |-> image])
    ELSE image

\* cv2.resize(image, (width, height)): raises on an empty target size and
\* copies the image when the size is the one it has.
cv2_resize(image, width, height) ==
    IF width <= 0 \/ height <= 0 THEN Raise
    ELSE IF Uniform(image) THEN Buf(width, height, image.px)
    ELSE IF width = image.w /\ height = image.h THEN image
    ELSE Opaque(width, height, [op |-> "resize", image |-> image])

\* ResizeFilter.apply rounding the scaled dimensions to the nearest integer.
ResizeFilter_round(image, width, height, scale) ==
    IF ~validate_image(image) THEN Raise
    ELSE IF width # 0 /\ height # 0 THEN cv2_resize(image, width, height)
    ELSE cv2_resize(image, (image.w * scale + 50) \div 100,
                    (image.h * scale + 50) \div 100)

\* ResizeFilter.apply; width, height 0 stand for None, scale in percent.
ResizeFilter(image, width, height, scale) ==
    IF ~validate_image(image) THEN Raise
    ELSE IF width # 0 /\ height # 0 THEN cv2_resize(image, width, height)
    ELSE cv2_resize(image, float_mul(image.w, scale), float_mul(image.h, scale))

\* ------------------------------------------------------ models/image.py --
\* Image.__init__ / Image._load_image: the constructed object, or Raise.
Image(fs, filepath) ==
    LET image == imread(fs, filepath) IN
    IF image = None THEN Raise
    ELSE [filepath |-> filepath, original_image |-> image,
          current_image |-> image, width |-> image.w, height |-> image.h]

\* A current_image setter that also makes the buffer the original.
set_current_image_rebase(img, buffer) ==
    [img EXCEPT !.current_image = buffer, !.original_image = buffer,
                !.height = buffer.h, !.width = buffer.w]

\* A current_image setter that keeps the width and height it had.
set_current_image_stale_dims(img, buffer) ==
    [img EXCEPT !.current_image = buffer]

\* Image.current_image setter
set_current_image(img, buffer) ==
    [img EXCEPT !.current_image = buffer, !.height = buffer.h, !.width = buffer.w]

\* Image.update_original
update_original(img) == [img EXCEPT !.original_image = img.current_image]

\* Image.reset_to_original
reset_to_original(img) ==
    [img EXCEPT !.current_image = img.original_image,
                !.height = img.original_image.h, !.width = img.original_image.w]

\* -------------------------------------------- managers/filter_manager.py --
\* FilterManager._register_default_filters: key -> filter object (its
\* class and its name).
register_default_filters ==
    [grayscale  |-> [cls |-> "GrayscaleFilter",      name |-> "Grayscale"],
     blur       |-> [cls |-> "BlurFilter",           name |-> "Blur"],
     edge       |-> [cls |-> "EdgeDetectionFilter",  name |-> "Edge Detection"],
     brightness |-> [cls |-> "BrightnessAdjustment", name |-> "Brightness"],
     contrast   |-> [cls |-> "ContrastAdjustment",   name |-> "Contrast"],
     rotate     |-> [cls |-> "RotationFilter",       name |-> "Rotation"],
     flip       |-> [cls |-> "FlipFilter",           name |-> "Flip"],
     resize     |-> [cls |-> "ResizeFilter",         name |-> "Resize"]]

\* FilterRegistry.register_filter
register_filter(reg, key, filter_obj) ==
    [k \in DOMAIN reg \cup {key} |-> IF k = key THEN filter_obj ELSE reg[k]]

\* HistoryTracker.add_to_history
add_to_history(hs, operation) == Append(hs, operation)

\* HistoryTracker.clear_history
clear_history(hs) == <<>>

\* get_filter falling back to the grayscale filter for a key it does not know.
get_filter_fallback(reg, key) ==
    IF key \in DOMAIN reg THEN reg[key] ELSE reg["grayscale"]

\* FilterRegistry.get_filter
get_filter(reg, key) == IF key \in DOMAIN reg THEN reg[key] ELSE None

\* filter_obj.apply(image, **kwargs): dispatch on the filter's class.
apply(filter_obj, image, kw) ==
    CASE filter_obj.cls = "GrayscaleFilter"      -> GrayscaleFilter(image)
      [] filter_obj.cls = "BlurFilter"           -> BlurFilter(image, Param(kw, "intensity", 5))
      [] filter_obj.cls = "EdgeDetectionFilter"  ->
            EdgeDetectionFilter(image, Param(kw, "threshold1", 100),
                                Param(kw, "threshold2", 200))
      [] filter_obj.cls = "BrightnessAdjustment" -> BrightnessAdjustment(image, Param(kw, "value", 0))
      [] filter_obj.cls = "ContrastAdjustment"   -> ContrastAdjustment(image, Param(kw, "value", 10))
      [] filter_obj.cls = "RotationFilter"       -> RotationFilter(image, Param(kw, "angle", 90))
      [] filter_obj.cls = "FlipFilter"           -> FlipFilter(image, Param(kw, "direction", "horizontal"))
      [] filter_obj.cls = "ResizeFilter"         ->
            ResizeFilter(image, Param(kw, "width", 0), Param(kw, "height", 0),
                         Param(kw, "scale", 100))

\* The state FilterManager's methods read and write, and their return value.
FM(ok, img, us, rs, hs) ==
    [ok |-> ok, image |-> img, undo_stack |-> us, redo_stack |-> rs, history |-> hs]

\* list.pop() of the last element.
pop(s) == SubSeq(s, 1, Len(s) - 1)

\* The log line apply_filter builds.
operation(filter_obj, kw) ==
    IF DOMAIN kw # {} THEN <<"Applied", filter_obj.name, "with params", kw>>
    ELSE <<"Applied", filter_obj.name>>

\* apply_filter saving the processed image, not the current one, for undo.
apply_filter_push_processed(reg, img, us, rs, hs, filter_key, kw) ==
    IF img = None THEN FM(FALSE, img, us, rs, hs)
    ELSE LET filter_obj == get_filter(reg, filter_key) IN
    IF filter_obj = None THEN FM(FALSE, img, us, rs, hs)
    ELSE LET processed_img == apply(filter_obj, img.current_image, kw)
         IN IF processed_img = Raise
            THEN FM(FALSE, img, us, <<>>, hs)
            ELSE FM(TRUE, set_current_image(img, processed_img),
                    Append(us, processed_img), <<>>,
                    add_to_history(hs, operation(filter_obj, kw)))

\* apply_filter without the redo_stack.clear().
apply_filter_keep_redo(reg, img, us, rs, hs, filter_key, kw) ==
    IF img = None THEN FM(FALSE, img, us, rs, hs)
    ELSE LET filter_obj == get_filter(reg, filter_key) IN
    IF filter_obj = None THEN FM(FALSE, img, us, rs, hs)
    ELSE LET us1 == Append(us, img.current_image)
             processed_img == apply(filter_obj, img.current_image, kw)
         IN IF processed_img = Raise
            THEN FM(FALSE, img, pop(us1), rs, hs)
            ELSE FM(TRUE, set_current_image(img, processed_img), us1, rs,
                    add_to_history(hs, operation(filter_obj, kw)))

\* apply_filter that also logs the calls whose transform raised.
apply_filter_log_failure(reg, img, us, rs, hs, filter_key, kw) ==
    IF img = None THEN FM(FALSE, img, us, rs, hs)
    ELSE LET filter_obj == get_filter(reg, filter_key) IN
    IF filter_obj = None THEN FM(FALSE, img, us, rs, hs)
    ELSE LET us1 == Append(us, img.current_image)
             processed_img == apply(filter_obj, img.current_image, kw)
         IN IF processed_img = Raise
            THEN FM(FALSE, img, pop(us1), <<>>, add_to_history(hs, operation(filter_obj, kw)))
            ELSE FM(TRUE, set_current_image(img, processed_img), us1, <<>>,
                    add_to_history(hs, operation(filter_obj, kw)))

\* apply_filter whose except branch leaves the pushed snapshot on the stack.
apply_filter_no_pop(reg, img, us, rs, hs, filter_key, kw) ==
    IF img = None THEN FM(FALSE, img, us, rs, hs)
    ELSE LET filter_obj == get_filter(reg, filter_key) IN
    IF filter_obj = None THEN FM(FALSE, img, us, rs, hs)
    ELSE LET us1 == Append(us, img.current_image)
             processed_img == apply(filter_obj, img.current_image, kw)
         IN IF processed_img = Raise
            THEN FM(FALSE, img, us1, <<>>, hs)
            ELSE FM(TRUE, set_current_image(img, processed_img), us1, <<>>,
                    add_to_history(hs, operation(filter_obj, kw)))

\* FilterManager.apply_filter
apply_filter(reg, img, us, rs, hs, filter_key, kw) ==
    IF img = None THEN FM(FALSE, img, us, rs, hs)
    ELSE LET filter_obj == get_filter(reg, filter_key) IN
    IF filter_obj = None THEN FM(FALSE, img, us, rs, hs)
    ELSE LET us1 == Append(us, img.current_image)
             rs1 == <<>>
             processed_img == apply(filter_obj, img.current_image, kw)
         IN IF processed_img = Raise
            THEN FM(FALSE, img, IF us1 # <<>> THEN pop(us1) ELSE us1, rs1, hs)
            ELSE FM(TRUE, set_current_image(img, processed_img), us1, rs1,
                    add_to_history(hs, operation(filter_obj, kw)))

\* undo taking the oldest snapshot instead of the newest.
undo_fifo(img, us, rs, hs) ==
    IF us = <<>> \/ img = None THEN FM(FALSE, img, us, rs, hs)
    ELSE FM(TRUE, set_current_image(img, us[1]), Tail(us),
            Append(rs, img.current_image), hs)

\* undo that drops the current buffer instead of saving it for redo.
undo_no_redo_push(img, us, rs, hs) ==
    IF us = <<>> \/ img = None THEN FM(FALSE, img, us, rs, hs)
    ELSE FM(TRUE, set_current_image(img, us[Len(us)]), pop(us), rs, hs)

\* can_undo asking for more than one snapshot.
can_undo_more_than_one(us) == Len(us) > 1

\* FilterManager.can_undo
can_undo(us) == us # <<>>

\* FilterManager.can_redo
can_redo(rs) == rs # <<>>

\* FilterManager.undo
undo(img, us, rs, hs) ==
    IF us = <<>> \/ img = None THEN FM(FALSE, img, us, rs, hs)
    ELSE FM(TRUE, set_current_image(img, us[Len(us)]), pop(us),
            Append(rs, img.current_image), hs)

\* redo that does not save the current buffer for undo.
redo_no_undo_push(img, us, rs, hs) ==
    IF rs = <<>> \/ img = None THEN FM(FALSE, img, us, rs, hs)
    ELSE FM(TRUE, set_current_image(img, rs[Len(rs)]), us, pop(rs), hs)

\* FilterManager.redo
redo(img, us, rs, hs) ==
    IF rs = <<>> \/ img = None THEN FM(FALSE, img, us, rs, hs)
    ELSE FM(TRUE, set_current_image(img, rs[Len(rs)]),
            Append(us, img.current_image), pop(rs), hs)

\* ------------------------------------------------- gui/main_window.py ----
\* The slider positions set in _create_control_panel, also the values the
\* handlers put the sliders back to.
SliderDefaults == [blur |-> 1, brightness |-> 0, contrast |-> 10, resize |-> 100]

\* The keyword arguments a slider's command passes to its filter: the blur
\* command passes the next odd number for an even position.
slider_kw(slider, value) ==
    CASE slider = "blur"   -> [intensity |-> IF value % 2 = 0 THEN value + 1 ELSE value]
      [] slider = "resize" -> [scale |-> value]
      [] OTHER             -> [value |-> value]

\* The try block of a slider's command on the stored baseline: the filtered
\* buffer, or Raise (also when get_filter returns None).
filtered(reg, slider, baseline, value) ==
    IF get_filter(reg, slider) = None THEN Raise
    ELSE apply(get_filter(reg, slider), baseline, slider_kw(slider, value))

\* The try block of a slider callback: the filtered image becomes the
\* current image; the except branch only prints.
displayed(img, out) == IF out = Raise THEN img ELSE set_current_image(img, out)

\* ImageEditorApp._on_blur_change: the Image object after the callback.
on_blur_change(reg, img, baseline, value) ==
    IF img = None \/ baseline = None THEN img
    ELSE displayed(img, filtered(reg, "blur", baseline, value))

\* _on_brightness_change filtering the current image, not the stored original.
on_brightness_change_cumulative(reg, img, baseline, value) ==
    IF img = None \/ baseline = None THEN img
    ELSE displayed(img, filtered(reg, "brightness", img.current_image, value))

\* ImageEditorApp._on_brightness_change
on_brightness_change(reg, img, baseline, value) ==
    IF img = None \/ baseline = None THEN img
    ELSE displayed(img, filtered(reg, "brightness", baseline, value))

\* ImageEditorApp._on_contrast_change
on_contrast_change(reg, img, baseline, value) ==
    IF img = None \/ baseline = None THEN img
    ELSE displayed(img, filtered(reg, "contrast", baseline, value))

\* ImageEditorApp._on_resize_change
on_resize_change(reg, img, baseline, value) ==
    IF img = None \/ baseline = None THEN img
    ELSE displayed(img, filtered(reg, "resize", baseline, value))

\* The command= of one tk.Scale.
on_change(slider, reg, img, baseline, value) ==
    CASE slider = "blur"       -> on_blur_change(reg, img, baseline, value)
      [] slider = "brightness" -> on_brightness_change(reg, img, baseline, value)
      [] slider = "contrast"   -> on_contrast_change(reg, img, baseline, value)
      [] slider = "resize"     -> on_resize_change(reg, img, baseline, value)

\* --------------------------------------------------------------- state ---
VARIABLES
    image,                 \* ImageEditorApp._image, the object FilterManager._current_image also names
    undo_stack,            \* FilterManager._undo_stack
    redo_stack,            \* FilterManager._redo_stack
    history,               \* HistoryTracker._history
    registry,              \* FilterRegistry._registry
    original_for_sliders,  \* ImageEditorApp._original_for_sliders
    sliders,               \* the positions of the four tk.Scale widgets
    pending,               \* the tk.Scale redraws queued as idle callbacks, oldest first
    files,                 \* the image files on disk
    call,                  \* one call of a filter's apply: its arguments and result
    processor,             \* an instance of the standalone ImageProcessor class
    nsteps,                \* number of handler calls so far
    last                   \* the last handler that ran, and its outcome

vars == <<image, undo_stack, redo_stack, history, registry, original_for_sliders,
          sliders, pending, files, call, processor, nsteps, last>>

\* The state of the application as one value, for the handlers written as
\* functions.
Cur ==
    [image |-> image, undo_stack |-> undo_stack, redo_stack |-> redo_stack,
     history |-> history, registry |-> registry,
     original_for_sliders |-> original_for_sliders, sliders |-> sliders,
     pending |-> pending]

\* The state after a FilterManager method returned r.
Managed(s, r) ==
    [s EXCEPT !.image = r.image, !.undo_stack = r.undo_stack,
              !.redo_stack = r.redo_stack, !.history = r.history]

\* from_ and to of the four tk.Scale widgets.
SliderRange ==
    [blur |-> [from_ |-> 1, to |-> 25], brightness |-> [from_ |-> 0 - 100, to |-> 100],
     contrast |-> [from_ |-> 5, to |-> 30], resize |-> [from_ |-> 25, to |-> 200]]

\* The value a tk.Scale takes when it is given value: the nearest one
\* within from_..to.
scale_value(slider, value) ==
    Max(SliderRange[slider].from_, Min(SliderRange[slider].to, value))

\* The redraw of the widget is queued as an idle callback.
redraw_pending(s, slider) ==
    \E i \in 1..Len(s.pending) : s.pending[i].slider = slider

\* A tk.Scale is to be redrawn (an Expose event, the pointer entering the
\* widget, a new value): its redraw is queued behind those queued already,
\* unless it is queued.
eventually_redraw(s, slider) ==
    IF redraw_pending(s, slider) THEN s
    ELSE [s EXCEPT !.pending = Append(@, [slider |-> slider, invoke |-> FALSE])]

\* The queue with the redraw of slider flagged to call the command.
invoke_command(queue, slider) ==
    [i \in 1..Len(queue) |->
        IF queue[i].slider = slider THEN [queue[i] EXCEPT !.invoke = TRUE]
        ELSE queue[i]]

\* tk.Scale.set(value), which the handlers call and the mouse bindings of
\* the widget call when the slider is dragged: the value is brought within
\* the range of the widget; nothing more when the widget has that value
\* already; otherwise the widget takes it, its redraw is queued unless it
\* is queued already, and that redraw is flagged to call the command.
scale_set(s, slider, value) ==
    IF s.sliders[slider] = scale_value(slider, value) THEN s
    ELSE [eventually_redraw(s, slider) EXCEPT
              !.sliders[slider] = scale_value(slider, value),
              !.pending = invoke_command(@, slider)]

\* A slider command that also saves the displayed image for undo.
command_push(s, slider) ==
    [s EXCEPT !.image = on_change(slider, s.registry, s.image,
                                  s.original_for_sliders, s.sliders[slider]),
              !.undo_stack = IF s.image = None THEN s.undo_stack
                             ELSE Append(s.undo_stack, s.image.current_image)]

\* The redraw of one tk.Scale calls its command with the value the widget
\* has by then.
command(s, slider) ==
    [s EXCEPT !.image = on_change(slider, s.registry, s.image,
                                  s.original_for_sliders, s.sliders[slider])]

\* The queued redraws run in the order they were queued; a redraw calls the
\* command of its widget when it is flagged to.
RECURSIVE run_commands(_, _)
run_commands(s, queue) ==
    IF queue = <<>> THEN s
    ELSE run_commands(IF Head(queue).invoke THEN command(s, Head(queue).slider)
                      ELSE s,
                      Tail(queue))

\* root.update_idletasks(), and the event loop gone idle: every queued
\* redraw runs.
update_idletasks(s) == [run_commands(s, s.pending) EXCEPT !.pending = <<>>]

\* A messagebox or a file dialog runs the event loop until it is answered:
\* the queued redraws run while it is open, and with them the commands they
\* are flagged to call.  The Expose events that reach tk.Scale widgets as
\* the dialog closes leave the redraws of those widgets queued when the
\* dialog returns: exposed lists the widgets, each once, in the order the
\* events came.
dialog(s, exposed) ==
    [update_idletasks(s) EXCEPT
         !.pending = [i \in 1..Len(exposed) |-> [slider |-> exposed[i], invoke |-> FALSE]]]

\* The four slider.set calls of _open_image, _apply_filter_permanent,
\* _commit_slider_changes and _reset_to_original.
reset_sliders(s) ==
    scale_set(scale_set(scale_set(scale_set(s, "blur", SliderDefaults.blur),
                                  "brightness", SliderDefaults.brightness),
                        "contrast", SliderDefaults.contrast),
              "resize", SliderDefaults.resize)

\* _open_image with a current_image setter that keeps the two stacks.
open_image_keep_stacks(s, fs, filepath, exposed) ==
    IF filepath = "" THEN dialog(s, exposed)
    ELSE IF Image(fs, filepath) = Raise THEN dialog(dialog(s, exposed), exposed)
    ELSE update_idletasks(reset_sliders(
             [dialog(s, exposed) EXCEPT !.image = Image(fs, filepath),
                               !.original_for_sliders = Image(fs, filepath).current_image]))

\* _open_image dropping the loaded image when the new file cannot be decoded.
open_image_drop_on_failure(s, fs, filepath, exposed) ==
    IF filepath = "" THEN dialog(s, exposed)
    ELSE IF Image(fs, filepath) = Raise
         THEN [dialog(s, exposed) EXCEPT !.image = None, !.undo_stack = <<>>,
                                !.redo_stack = <<>>, !.original_for_sliders = None]
    ELSE update_idletasks(reset_sliders(
             [dialog(s, exposed) EXCEPT !.image = Image(fs, filepath),
                               !.undo_stack = <<>>, !.redo_stack = <<>>,
                               !.original_for_sliders = Image(fs, filepath).current_image]))

\* ImageEditorApp._open_image, the file dialog returning filepath ("" when
\* it is cancelled) with the redraws of the widgets exposed queued: the
\* dialog, then Image(filepath) and the error box when it raises, else the
\* new Image, the FilterManager.current_image setter, the baseline, the
\* sliders and update_idletasks.
open_image(s, fs, filepath, exposed) ==
    IF filepath = "" THEN dialog(s, exposed)
    ELSE IF Image(fs, filepath) = Raise THEN dialog(dialog(s, exposed), exposed)
    ELSE update_idletasks(reset_sliders(
             [dialog(s, exposed) EXCEPT !.image = Image(fs, filepath),
                               !.undo_stack = <<>>, !.redo_stack = <<>>,
                               !.original_for_sliders = Image(fs, filepath).current_image]))

\* ImageEditorApp._apply_filter_permanent: a warning box without image, an
\* error box when apply_filter returns False.
apply_filter_permanent(s, filter_key, kw, exposed) ==
    IF s.image = None THEN dialog(s, exposed)
    ELSE LET r == apply_filter(s.registry, s.image, s.undo_stack, s.redo_stack,
                               s.history, filter_key, kw) IN
    IF r.ok
    THEN reset_sliders([Managed(s, r) EXCEPT
                            !.original_for_sliders = r.image.current_image])
    ELSE dialog(Managed(s, r), exposed)

\* The slider dragged to value.
slider_change(s, slider, value) == scale_set(s, slider, value)

\* ImageEditorApp._reset_slider, the "Reset" button under one slider.
reset_slider(s, slider) ==
    IF s.image = None THEN s ELSE scale_set(s, slider, SliderDefaults[slider])

\* ImageEditorApp._commit_slider_changes, which ends with an info box.
commit_slider_changes(s, exposed) ==
    IF s.image = None THEN s
    ELSE dialog(reset_sliders(
                    [s EXCEPT !.original_for_sliders = s.image.current_image]),
                exposed)

\* ImageEditorApp._undo: an info box when there is nothing to undo.
gui_undo(s, exposed) ==
    LET r == undo(s.image, s.undo_stack, s.redo_stack, s.history) IN
    IF r.ok THEN Managed(s, r) ELSE dialog(Managed(s, r), exposed)

\* ImageEditorApp._redo
gui_redo(s, exposed) ==
    LET r == redo(s.image, s.undo_stack, s.redo_stack, s.history) IN
    IF r.ok THEN Managed(s, r) ELSE dialog(Managed(s, r), exposed)

\* ImageEditorApp._reset_to_original: a warning box without image.
gui_reset_to_original(s, exposed) ==
    IF s.image = None THEN dialog(s, exposed)
    ELSE reset_sliders(
             [s EXCEPT !.image = reset_to_original(s.image),
                       !.original_for_sliders = s.image.original_image])

\* ImageEditorApp._save_image: the outcome of its cv2.imwrite call (nothing
\* is written without an image) and the state after the box that follows.
save_image(s, fs, written, exposed) ==
    IF s.image = None
    THEN [raised |-> FALSE, ret |-> FALSE, fs |-> fs, s |-> dialog(s, exposed)]
    ELSE LET w == imwrite(fs, s.image.filepath, s.image.current_image, written)
         IN [raised |-> w.raised, ret |-> w.ret, fs |-> w.fs, s |-> dialog(s, exposed)]

\* ImageEditorApp._save_image_as, the file dialog returning filepath: the
\* dialog comes before the write.
save_image_as(s, fs, filepath, written, exposed) ==
    IF s.image = None \/ filepath = ""
    THEN [raised |-> FALSE, ret |-> FALSE, fs |-> fs, s |-> dialog(s, exposed)]
    ELSE LET w == imwrite(fs, filepath, dialog(s, exposed).image.current_image, written)
         IN [raised |-> w.raised, ret |-> w.ret, fs |-> w.fs, s |-> dialog(dialog(s, exposed), exposed)]

\* ------------------------------------------------------------- inputs ----
\* Paths the file dialog returns ("" when it is cancelled).
Paths == {"a.png", "missing.png", ""}

\* (filter_key, kwargs) pairs given to _apply_filter_permanent: the
\* grayscale and rotate buttons, the legacy _apply_resize, and a key that
\* is not registered by default.
ApplyInputs ==
    { <<"grayscale", NoKw>>,
      <<"rotate", [angle |-> 90]>>,
      <<"resize", [scale |-> 50]>>,
      <<"sharpen", NoKw>> }

\* Positions the sliders are dragged to.
SliderValues ==
    [blur |-> {1, 4}, brightness |-> {0, 50}, contrast |-> {10, 15},
     resize |-> {100, 50}]

Sliders == {"blur", "brightness", "contrast", "resize"}

\* What "Save As" is given: the path its dialog returns ("" when it is
\* cancelled; the PNG file of the explored file system; a name whose
\* extension has no encoder) and whether the file can be written.
SaveAsInputs ==
    { <<"", TRUE>>, <<"out.xyz", TRUE>>, <<"a.png", TRUE>>, <<"a.png", FALSE>> }

\* The slider whose "Reset" button is pressed.
ResetSliders == {"brightness"}

\* The sliders an Expose event reaches before they are given a value.
Exposed == {"contrast", "resize"}

\* The sliders Expose events reach as a dialog closes, in the order of the
\* events.
Exposures == {<<>>, <<"resize", "contrast">>}

\* The filter a caller registers under a key of its own.
Registered == [key |-> "sharpen", filter_obj |-> [cls |-> "EdgeDetectionFilter", name |-> "Sharpen"]]

\* The line a caller adds to the log.
Note == <<"Note">>

\* The record of the last handler: its name, whether it took effect, and
\* the filter key or the slider it was given ("" for the other handlers).
Last(op, ok, arg) == [op |-> op, ok |-> ok, arg |-> arg]

\* No filter called outside the application.
NoCall == [fn |-> "none"]

\* The variables of the application take the fields of s.
Becomes(s) ==
    \E t \in {s} :
        /\ image' = t.image
        /\ undo_stack' = t.undo_stack
        /\ redo_stack' = t.redo_stack
        /\ history' = t.history
        /\ registry' = t.registry
        /\ original_for_sliders' = t.original_for_sliders
        /\ sliders' = t.sliders
        /\ pending' = t.pending
        /\ call' = call
        /\ processor' = processor

\* One more handler or method call.
Handled ==
    /\ nsteps < MaxSteps
    /\ nsteps' = nsteps + 1

\* ImageEditorApp.__init__ and FilterManager.__init__
Init ==
    /\ image = None
    /\ undo_stack = <<>>
    /\ redo_stack = <<>>
    /\ history = <<>>
    /\ registry = register_default_filters
    /\ original_for_sliders = None
    /\ sliders = SliderDefaults
    /\ pending = <<>>
    /\ files = Disk
    /\ call = NoCall
    /\ processor = None
    /\ nsteps = 0
    /\ last = Last("init", TRUE, "")

\* "Open", Expose events reaching the widgets exposed as the dialogs of the
\* handler close, as in the handlers below.
OpenImage(filepath, exposed) ==
    /\ Handled
    /\ Becomes(open_image(Cur, files, filepath, exposed))
    /\ files' = files
    /\ last' = Last("open", filepath # "" /\ Image(files, filepath) # Raise, "")

\* "Save": the handler reports success unless cv2.imwrite raised.
SaveImage(written, exposed) ==
    /\ Handled
    /\ \E r \in {save_image(Cur, files, written, exposed)} :
           /\ Becomes(r.s)
           /\ files' = r.fs
           /\ last' = Last("save", image # None /\ ~r.raised, "")

\* "Save As"
SaveImageAs(filepath, written, exposed) ==
    /\ Handled
    /\ \E r \in {save_image_as(Cur, files, filepath, written, exposed)} :
           /\ Becomes(r.s)
           /\ files' = r.fs
           /\ last' = Last("save_as", image # None /\ filepath # "" /\ ~r.raised,
                           filepath)

ApplyFilterPermanent(filter_key, kw, exposed) ==
    /\ Handled
    /\ Becomes(apply_filter_permanent(Cur, filter_key, kw, exposed))
    /\ files' = files
    /\ last' = Last("apply", apply_filter(registry, image, undo_stack, redo_stack,
                                          history, filter_key, kw).ok, filter_key)

\* A slider is dragged: the widget takes the value, its command is queued.
SliderChange(slider, value) ==
    /\ Handled
    /\ value # sliders[slider]
    /\ Becomes(slider_change(Cur, slider, value))
    /\ files' = files
    /\ last' = Last("set", TRUE, slider)

\* The "Reset" button under a slider.
ResetSlider(slider) ==
    /\ Handled
    /\ Becomes(reset_slider(Cur, slider))
    /\ files' = files
    /\ last' = Last("reset_slider", image # None, slider)

\* The command of a slider, run on the state s, shows a new image.
previewed(s, slider) ==
    /\ s.image # None
    /\ s.original_for_sliders # None
    /\ filtered(s.registry, slider, s.original_for_sliders, s.sliders[slider]) # Raise

\* The slider whose command the queued redraws call last ("" when they
\* call none).
last_command(queue) ==
    IF \A i \in 1..Len(queue) : ~queue[i].invoke THEN ""
    ELSE queue[CHOOSE i \in 1..Len(queue) :
                   /\ queue[i].invoke
                   /\ \A j \in (i + 1)..Len(queue) : ~queue[j].invoke].slider

\* An Expose event (or the pointer entering the widget) reaches a tk.Scale:
\* its redraw is queued.
Expose(slider) ==
    /\ Handled
    /\ ~redraw_pending(Cur, slider)
    /\ Becomes(eventually_redraw(Cur, slider))
    /\ files' = files
    /\ last' = Last("expose", TRUE, slider)

\* The event loop is idle: the queued redraws run, and with them the
\* commands they are flagged to call.
Idle ==
    /\ pending # <<>>
    /\ Becomes(update_idletasks(Cur))
    /\ files' = files
    /\ nsteps' = nsteps
    /\ last' = IF last_command(pending) = "" THEN Last("redraw", TRUE, "")
               ELSE Last("preview", previewed(Cur, last_command(pending)),
                         last_command(pending))

CommitSliderChanges(exposed) ==
    /\ Handled
    /\ Becomes(commit_slider_changes(Cur, exposed))
    /\ files' = files
    /\ last' = Last("commit", image # None, "")

Undo(exposed) ==
    /\ Handled
    /\ Becomes(gui_undo(Cur, exposed))
    /\ files' = files
    /\ last' = Last("undo", undo(image, undo_stack, redo_stack, history).ok, "")

Redo(exposed) ==
    /\ Handled
    /\ Becomes(gui_redo(Cur, exposed))
    /\ files' = files
    /\ last' = Last("redo", redo(image, undo_stack, redo_stack, history).ok, "")

ResetToOriginal(exposed) ==
    /\ Handled
    /\ Becomes(gui_reset_to_original(Cur, exposed))
    /\ files' = files
    /\ last' = Last("reset", image # None, "")

\* Image.update_original() called on the loaded image.
UpdateOriginal ==
    /\ Handled
    /\ image # None
    /\ Becomes([Cur EXCEPT !.image = update_original(image)])
    /\ files' = files
    /\ last' = Last("update_original", TRUE, "")

\* FilterManager.register_filter(key, filter_obj)
RegisterFilter(key, filter_obj) ==
    /\ Handled
    /\ Becomes([Cur EXCEPT !.registry = register_filter(registry, key, filter_obj)])
    /\ files' = files
    /\ last' = Last("register_filter", TRUE, key)

\* FilterManager.add_to_history(operation)
AddToHistory(line) ==
    /\ Handled
    /\ Becomes([Cur EXCEPT !.history = add_to_history(history, line)])
    /\ files' = files
    /\ last' = Last("add_to_history", TRUE, "")

\* FilterManager.clear_history()
ClearHistory ==
    /\ Handled
    /\ Becomes([Cur EXCEPT !.history = clear_history(history)])
    /\ files' = files
    /\ last' = Last("clear_history", TRUE, "")

Next ==
    \/ \E filepath \in Paths : \E exposed \in Exposures : OpenImage(filepath, exposed)
    \/ \E written \in BOOLEAN : \E exposed \in Exposures : SaveImage(written, exposed)
    \/ \E in \in SaveAsInputs : \E exposed \in Exposures : SaveImageAs(in[1], in[2], exposed)
    \/ \E in \in ApplyInputs : \E exposed \in Exposures :
           ApplyFilterPermanent(in[1], in[2], exposed)
    \/ \E slider \in Sliders : \E value \in SliderValues[slider] : SliderChange(slider, value)
    \/ \E slider \in ResetSliders : ResetSlider(slider)
    \/ \E slider \in Exposed : Expose(slider)
    \/ Idle
    \/ \E exposed \in Exposures : CommitSliderChanges(exposed)
    \/ \E exposed \in Exposures : Undo(exposed)
    \/ \E exposed \in Exposures : Redo(exposed)
    \/ \E exposed \in Exposures : ResetToOriginal(exposed)
    \/ UpdateOriginal
    \/ RegisterFilter(Registered.key, Registered.filter_obj)
    \/ AddToHistory(Note)
    \/ ClearHistory

Spec == Init /\ [][Next]_vars

TypeOK ==
    /\ nsteps <= MaxSteps
    /\ Len(history) <= nsteps
    /\ Len(undo_stack) + Len(redo_stack) <= nsteps
    /\ \A i, j \in 1..Len(pending) : pending[i].slider = pending[j].slider => i = j
    /\ DOMAIN register_default_filters \subseteq DOMAIN registry

\* ------------------------------------------- the filters called directly --
\* The apply methods of the filters as functions of their arguments: the
\* arguments are drawn first, then the call is made.
Intensities == (0 - MaxIntensity)..MaxIntensity

\* Image arguments of the blur calls: a loaded image and an empty array.
BlurImages == {Buf(4, 2, <<40, 120, 200>>), Buf(0, 0, <<0, 0, 0>>)}

\* Widths and heights of the image arguments of the resize calls.
Dims == {1, 3, 50, 100}

\* width= and height= arguments (0 for None or 0).
Targets == {0, 7, 30}

\* scale= arguments in percent: 0.25, 0.5, 0.57, 0.58, 1.0, 1.5, 2.0.
Scales == {25, 50, 57, 58, 100, 150, 200}

\* value= arguments of the contrast calls in tenths, 0.5 to 3.0.
ContrastValues == 5..30

\* Image arguments of the contrast calls.
ContrastImages == {Buf(4, 2, <<90, 170, 180>>), Buf(4, 2, <<40, 120, 200>>)}

\* angle= arguments of the rotation calls.
RotationAngles == {0, 45, 90, 180, 270, 360}

\* Image arguments of the rotation calls: a coloured one, a black one, one
\* of a single pixel.
RotationImages ==
    {Buf(4, 2, <<40, 120, 200>>), Buf(4, 2, <<0, 0, 0>>), Buf(1, 1, <<40, 120, 200>>)}

BlurCalls ==
    {[fn |-> "blur", image |-> img, intensity |-> i, done |-> FALSE,
      kernel |-> 0, out |-> None] : img \in BlurImages, i \in Intensities}

ResizeCalls ==
    {[fn |-> "resize", image |-> Buf(w, h, <<40, 120, 200>>), width |-> width,
      height |-> height, scale |-> scale, done |-> FALSE, out |-> None] :
        w \in Dims, h \in Dims, width \in Targets, height \in Targets,
        scale \in Scales}

ContrastCalls ==
    {[fn |-> "contrast", image |-> img, value |-> v, done |-> FALSE,
      out |-> None] : img \in ContrastImages, v \in ContrastValues}

RotationCalls ==
    {[fn |-> "rotate", image |-> img, angle |-> a, done |-> FALSE,
      out |-> None] : img \in RotationImages, a \in RotationAngles}

\* Brightness values: the ends of the documented range, values whose sum
\* with a sample leaves int16, and values outside int16.
BrightnessValues ==
    {0 - 32769, 0 - 32768, 0 - 32700, 0 - 100, 0, 50, 100, 32700, 32767, 32768}

BrightnessImages ==
    {Buf(4, 2, <<40, 120, 200>>), Buf(4, 2, <<90, 170, 180>>),
     Buf(4, 2, <<0, 255, 128>>)}

BrightnessCalls ==
    {[fn |-> "brightness", image |-> img, value |-> v, done |-> FALSE,
      out |-> None] : img \in BrightnessImages, v \in BrightnessValues}

InitFilters ==
    /\ image = None
    /\ undo_stack = <<>>
    /\ redo_stack = <<>>
    /\ history = <<>>
    /\ registry = register_default_filters
    /\ original_for_sliders = None
    /\ sliders = SliderDefaults
    /\ pending = <<>>
    /\ files = Disk
    /\ nsteps = 0
    /\ last = Last("init", TRUE, "")
    /\ processor = None
    /\ call \in BlurCalls \cup ResizeCalls \cup ContrastCalls \cup RotationCalls
                 \cup BrightnessCalls

\* BlurFilter().apply(image, intensity=intensity)
CallBlur ==
    /\ call.fn = "blur" /\ ~call.done
    /\ call' = [call EXCEPT !.done = TRUE,
                            !.kernel = kernel_size(call.intensity),
                            !.out = BlurFilter(call.image, call.intensity)]
    /\ UNCHANGED <<image, undo_stack, redo_stack, history, registry,
                   original_for_sliders, sliders, pending, files, processor,
                   nsteps, last>>

\* ResizeFilter().apply(image, width=width, height=height, scale=scale)
CallResize ==
    /\ call.fn = "resize" /\ ~call.done
    /\ call' = [call EXCEPT !.done = TRUE,
                            !.out = ResizeFilter(call.image, call.width,
                                                 call.height, call.scale)]
    /\ UNCHANGED <<image, undo_stack, redo_stack, history, registry,
                   original_for_sliders, sliders, pending, files, processor,
                   nsteps, last>>

\* ContrastAdjustment().apply(image, value=value)
CallContrast ==
    /\ call.fn = "contrast" /\ ~call.done
    /\ call' = [call EXCEPT !.done = TRUE,
                            !.out = ContrastAdjustment(call.image, call.value)]
    /\ UNCHANGED <<image, undo_stack, redo_stack, history, registry,
                   original_for_sliders, sliders, pending, files, processor,
                   nsteps, last>>

\* RotationFilter().apply(image, angle=angle)
CallRotation ==
    /\ call.fn = "rotate" /\ ~call.done
    /\ call' = [call EXCEPT !.done = TRUE,
                            !.out = RotationFilter(call.image, call.angle)]
    /\ UNCHANGED <<image, undo_stack, redo_stack, history, registry,
                   original_for_sliders, sliders, pending, files, processor,
                   nsteps, last>>

\* BrightnessAdjustment().apply(image, value=value)
CallBrightness ==
    /\ call.fn = "brightness" /\ ~call.done
    /\ \E out \in BrightnessAdjustment_builds(call.image, call.value) :
           call' = [call EXCEPT !.done = TRUE, !.out = out]
    /\ UNCHANGED <<image, undo_stack, redo_stack, history, registry,
                   original_for_sliders, sliders, pending, files, processor,
                   nsteps, last>>

NextFilters == CallBlur \/ CallResize \/ CallContrast \/ CallRotation \/ CallBrightness

SpecFilters == InitFilters /\ [][NextFilters]_vars

\* ------------------------------- the standalone ImageProcessor class -----
\* (test_oops_concepts.py)  A method returns the object after the call and
\* whether the call raised.
Ret(p, raised) == [p |-> p, raised |-> raised]

\* ImageProcessor.__init__
ImageProcessor(img) ==
    [original_image |-> img, current_image |-> img, history |-> <<>>]

\* ImageProcessor._save_state
ImageProcessor_save_state(p) ==
    [p EXCEPT !.history = Append(@, p.current_image)]

\* ImageProcessor.reset
ImageProcessor_reset(p) ==
    Ret([p EXCEPT !.current_image = p.original_image, !.history = <<>>], FALSE)

\* ImageProcessor.get_image
ImageProcessor_get_image(p) == p.current_image

\* ImageProcessor.to_grayscale: cv2.cvtColor(BGR2GRAY) returns one channel
\* and raises on an image that has one channel already.
ImageProcessor_to_grayscale(p) ==
    LET p1 == ImageProcessor_save_state(p) IN
    IF Len(p1.current_image.px) # 3 THEN Ret(p1, TRUE)
    ELSE Ret([p1 EXCEPT !.current_image.px = <<BGR2GRAY(p1.current_image.px)>>], FALSE)

\* ImageProcessor.apply_blur: an even intensity becomes the next odd number;
\* cv2.GaussianBlur raises on a kernel size below 1 and keeps a constant
\* image.
ImageProcessor_apply_blur(p, intensity) ==
    LET p1 == ImageProcessor_save_state(p)
        ksize == IF intensity % 2 = 0 THEN intensity + 1 ELSE intensity
    IN IF ksize < 1 THEN Ret(p1, TRUE) ELSE Ret(p1, FALSE)

\* ImageProcessor.detect_edges: cv2.Canny of a constant image is all zero,
\* in one channel.
ImageProcessor_detect_edges(p, threshold1, threshold2) ==
    LET p1 == ImageProcessor_save_state(p) IN
    Ret([p1 EXCEPT !.current_image.px = <<0>>], FALSE)

\* round() of n/2 to the nearest integer, ties to the even one.
round_half(n) == IF n % 2 = 0 THEN n \div 2 ELSE (n \div 2) + ((n \div 2) % 2)

\* cv2.convertScaleAbs on one sample, alpha given in halves:
\* saturate(round(|sample * alpha + beta|)).
convertScaleAbs(sample, alpha, beta) ==
    LET twice == sample * alpha + 2 * beta
    IN Min(255, round_half(IF twice < 0 THEN 0 - twice ELSE twice))

\* ImageProcessor.adjust_brightness_contrast, the contrast in halves.
ImageProcessor_adjust_brightness_contrast(p, brightness, contrast) ==
    LET p1 == ImageProcessor_save_state(p)
        cur == p1.current_image
    IN Ret([p1 EXCEPT !.current_image.px =
                [i \in 1..Len(cur.px) |-> convertScaleAbs(cur.px[i], contrast, brightness)]],
           FALSE)

\* ImageProcessor.rotate
ImageProcessor_rotate(p, angle) ==
    LET p1 == ImageProcessor_save_state(p)
        cur == p1.current_image
    IN IF angle = 90 THEN Ret([p1 EXCEPT !.current_image = Buf(cur.h, cur.w, cur.px)], FALSE)
       ELSE IF angle = 180 THEN Ret(p1, FALSE)
       ELSE IF angle = 270 THEN Ret([p1 EXCEPT !.current_image = Buf(cur.h, cur.w, cur.px)], FALSE)
       ELSE Ret(p1, TRUE)

\* ImageProcessor.flip
ImageProcessor_flip(p, direction) ==
    LET p1 == ImageProcessor_save_state(p) IN
    IF direction = "horizontal" THEN Ret(p1, FALSE)
    ELSE IF direction = "vertical" THEN Ret(p1, FALSE)
    ELSE Ret(p1, TRUE)

\* ImageProcessor.resize, the scale factors in percent.
ImageProcessor_resize(p, scale_x, scale_y) ==
    LET p1 == ImageProcessor_save_state(p)
        cur == p1.current_image
        resized == cv2_resize(cur, float_mul(cur.w, scale_x), float_mul(cur.h, scale_y))
    IN IF resized = Raise THEN Ret(p1, TRUE)
       ELSE Ret([p1 EXCEPT !.current_image = resized], FALSE)

\* ImageProcessor.undo
ImageProcessor_undo(p) ==
    IF p.history # <<>>
    THEN Ret([p EXCEPT !.current_image = p.history[Len(p.history)],
                       !.history = pop(p.history)], FALSE)
    ELSE Ret(p, FALSE)

\* Arguments of rotate and flip, valid and invalid.
Angles == {90, 180, 270, 45}
Directions == {"horizontal", "vertical", "diagonal"}

InitProcessor ==
    /\ image = None
    /\ undo_stack = <<>>
    /\ redo_stack = <<>>
    /\ history = <<>>
    /\ registry = register_default_filters
    /\ original_for_sliders = None
    /\ sliders = SliderDefaults
    /\ pending = <<>>
    /\ files = Disk
    /\ call = NoCall
    /\ nsteps = 0
    /\ last = Last("init", TRUE, "")
    /\ processor = ImageProcessor(Buf(4, 2, <<40, 120, 200>>))

\* One more method call on the object: it becomes r.p.
Called(r) ==
    /\ nsteps < MaxSteps
    /\ nsteps' = nsteps + 1
    /\ processor' = r.p
    /\ UNCHANGED <<image, undo_stack, redo_stack, history, registry,
                   original_for_sliders, sliders, pending, files, call>>

\* Each call is recorded with its argument and whether it returned normally.
ProcessorReset ==
    /\ Called(ImageProcessor_reset(processor))
    /\ last' = Last("reset", TRUE, "")

ProcessorToGrayscale ==
    /\ Called(ImageProcessor_to_grayscale(processor))
    /\ last' = Last("to_grayscale", ~ImageProcessor_to_grayscale(processor).raised, "")

ProcessorApplyBlur(intensity) ==
    /\ Called(ImageProcessor_apply_blur(processor, intensity))
    /\ last' = Last("apply_blur", ~ImageProcessor_apply_blur(processor, intensity).raised,
                    intensity)

ProcessorDetectEdges(threshold1, threshold2) ==
    /\ Called(ImageProcessor_detect_edges(processor, threshold1, threshold2))
    /\ last' = Last("detect_edges", TRUE, <<threshold1, threshold2>>)

ProcessorAdjustBrightnessContrast(brightness, contrast) ==
    /\ Called(ImageProcessor_adjust_brightness_contrast(processor, brightness, contrast))
    /\ last' = Last("adjust_brightness_contrast", TRUE, <<brightness, contrast>>)

ProcessorRotate(angle) ==
    /\ Called(ImageProcessor_rotate(processor, angle))
    /\ last' = Last("rotate", ~ImageProcessor_rotate(processor, angle).raised, angle)

ProcessorFlip(direction) ==
    /\ Called(ImageProcessor_flip(processor, direction))
    /\ last' = Last("flip", ~ImageProcessor_flip(processor, direction).raised, direction)

ProcessorResize(scale_x, scale_y) ==
    /\ Called(ImageProcessor_resize(processor, scale_x, scale_y))
    /\ last' = Last("resize", ~ImageProcessor_resize(processor, scale_x, scale_y).raised,
                    <<scale_x, scale_y>>)

ProcessorUndo ==
    /\ Called(ImageProcessor_undo(processor))
    /\ last' = Last("undo", TRUE, "")

NextProcessor ==
    \/ ProcessorReset
    \/ ProcessorToGrayscale
    \/ \E intensity \in {4, 0 - 3} : ProcessorApplyBlur(intensity)
    \/ ProcessorDetectEdges(100, 200)
    \/ ProcessorAdjustBrightnessContrast(50, 3)
    \/ \E angle \in Angles : ProcessorRotate(angle)
    \/ \E direction \in Directions : ProcessorFlip(direction)
    \/ ProcessorResize(50, 50)
    \/ ProcessorUndo

SpecProcessor == InitProcessor /\ [][NextProcessor]_vars

\* ---------------------------------------------------- composed calls ----
\* The methods of FilterManager composed over sequences of inputs, on the
\* state of the application.
RECURSIVE ApplyAll(_, _)
ApplyAll(s, ins) ==
    IF ins = <<>> THEN s
    ELSE ApplyAll(Managed(s, apply_filter(s.registry, s.image, s.undo_stack,
                                          s.redo_stack, s.history,
                                          Head(ins)[1], Head(ins)[2])),
                  Tail(ins))

\* Every apply_filter call of the sequence returned True.
RECURSIVE AllOk(_, _)
AllOk(s, ins) ==
    IF ins = <<>> THEN TRUE
    ELSE /\ apply_filter(s.registry, s.image, s.undo_stack, s.redo_stack,
                         s.history, Head(ins)[1], Head(ins)[2]).ok
         /\ AllOk(ApplyAll(s, <<Head(ins)>>), Tail(ins))

RECURSIVE UndoN(_, _)
UndoN(s, n) ==
    IF n = 0 THEN s
    ELSE UndoN(Managed(s, undo(s.image, s.undo_stack, s.redo_stack, s.history)), n - 1)

RECURSIVE RedoN(_, _)
RedoN(s, n) ==
    IF n = 0 THEN s
    ELSE RedoN(Managed(s, redo(s.image, s.undo_stack, s.redo_stack, s.history)), n - 1)

\* The states a sequence of apply_filter calls goes through, the starting
\* state first.
RECURSIVE StatesAfter(_, _)
StatesAfter(s, ins) ==
    IF ins = <<>> THEN <<s>>
    ELSE <<s>> \o StatesAfter(ApplyAll(s, <<Head(ins)>>), Tail(ins))

\* Sequence a is an initial part of sequence b.
IsPrefix(a, b) == Len(a) <= Len(b) /\ SubSeq(b, 1, Len(a)) = a

\* The sequences of 1..MaxRun apply inputs.
InputSeqs == UNION {[1..n -> ApplyInputs] : n \in 1..MaxRun}

\* The sequences of apply inputs whose calls fit in what is left of a
\* session of MaxSteps calls.
InputSeqsLeft == {ins \in InputSeqs : nsteps + Len(ins) <= MaxSteps}

\* ------------------------------------------------------------- claims ----

\* C1 (as stated): from any state with a loaded image, N apply_filter calls
\* with any keys and parameters followed by N undo calls give back the
\* buffer that was current before the first call.
C1_RoundTripAnyCalls ==
    image # None =>
        \A ins \in InputSeqsLeft :
            UndoN(ApplyAll(Cur, ins), Len(ins)).image.current_image = image.current_image

\* C1 (amended): from any state with a loaded image, N apply_filter calls
\* that all return True, followed by N undo calls, give back the buffer
\* that was current before the first call.
C1_RoundTripSuccessfulCalls ==
    image # None =>
        \A ins \in InputSeqsLeft :
            AllOk(Cur, ins) =>
                UndoN(ApplyAll(Cur, ins), Len(ins)).image.current_image = image.current_image

\* C1 witness: two applies succeeded and two undos followed, which emptied
\* the undo stack again and brought the loaded buffer back.
C1_Witness ==
    /\ last = Last("undo", TRUE, "")
    /\ Len(history) = 2
    /\ Len(redo_stack) = 2
    /\ undo_stack = <<>>
    /\ image.current_image = image.original_image
    /\ redo_stack[1] # redo_stack[2]

\* C2: right after an apply_filter call that returned True the redo stack
\* is empty, so redo returns False and changes neither the image nor a stack.
C2_RedoInvalidatedByApply ==
    (last.op = "apply" /\ last.ok) =>
        LET r == redo(image, undo_stack, redo_stack, history) IN
        /\ redo_stack = <<>>
        /\ ~r.ok
        /\ r.image = image
        /\ r.undo_stack = undo_stack
        /\ r.redo_stack = redo_stack

\* C2 witness: an apply succeeded after an undo (two log entries, one
\* snapshot left on the undo stack).
C2_Witness ==
    /\ last.op = "apply" /\ last.ok
    /\ Len(history) = 2
    /\ Len(undo_stack) = 1
    /\ image.filepath = "a.png"

\* C3 (as stated): "Apply All" after a slider movement makes the undo stack
\* one entry longer.
C3_CommitPushesOneEntry ==
    [][(last.op = "preview" /\ last.ok /\ last' = Last("commit", TRUE, ""))
          => Len(undo_stack') = Len(undo_stack) + 1]_vars

\* C4 (as stated): after "Apply All" following a slider movement, one undo
\* succeeds and makes the pre-gesture baseline the current buffer.
C4_UndoAfterCommitRestoresBaseline ==
    [][(last.op = "preview" /\ last.ok /\ last' = Last("commit", TRUE, ""))
          => LET r == undo(image', undo_stack', redo_stack', history') IN
             r.ok /\ r.image.current_image = original_for_sliders]_vars

\* C5 (as stated): "Apply All" after a slider movement leaves the redo stack
\* empty, so redo returns False and keeps the committed buffer.
C5_CommitClearsRedo ==
    [][(last.op = "preview" /\ last.ok /\ last' = Last("commit", TRUE, ""))
          => LET r == redo(image', undo_stack', redo_stack', history') IN
             redo_stack' = <<>> /\ ~r.ok /\ r.image = image']_vars

\* C6: after a slider's command ran and its transform did not raise, the
\* current buffer is the transform of the stored baseline with the slider's
\* position, whatever movements came before it in the gesture.
C6_PreviewFromBaseline ==
    (last.op = "preview" /\ last.ok) =>
        image.current_image =
            apply(get_filter(registry, last.arg), original_for_sliders,
                  slider_kw(last.arg, sliders[last.arg]))

\* C6 witness: the brightness slider was moved away and back within one
\* gesture on a modified image and the baseline is displayed again.
C6_Witness ==
    /\ last = Last("preview", TRUE, "brightness")
    /\ sliders.brightness = 0
    /\ undo_stack # <<>>
    /\ image.current_image = original_for_sliders
    /\ history # <<>>

\* C7: a slider's command leaves the undo stack, the redo stack, the
\* operation log, the original buffer and the baseline as they were.
C7_PreviewFrame ==
    [][last'.op = "preview"
          => /\ UNCHANGED <<undo_stack, redo_stack, history, original_for_sliders>>
             /\ IF image = None THEN image' = None
                ELSE image'.original_image = image.original_image]_vars

\* C7 witness: a slider's command changed the displayed buffer while both
\* stacks and the log held entries.
C7_Witness ==
    /\ last.op = "preview" /\ last.ok
    /\ undo_stack # <<>>
    /\ redo_stack # <<>>
    /\ history # <<>>
    /\ image.current_image # original_for_sliders

\* C8 (as stated): when a gesture starts (a slider is moved right after an
\* open, apply, undo, redo, reset or commit that took effect), the baseline
\* equals the current buffer.
C8_BaselineIsCurrentAtGestureStart ==
    [][(/\ last.op \in {"open", "apply", "undo", "redo", "reset", "commit"}
        /\ last.ok
        /\ last'.op = "set")
          => original_for_sliders = image.current_image]_vars

\* C9 (as stated): right after "Reset to Original", any number of undo
\* calls leaves the current buffer equal to the original buffer.
C9_UndoAfterResetKeepsOriginal ==
    (last.op = "reset" /\ last.ok) =>
        \A k \in 1..MaxRun :
            UndoN(Cur, k).image.current_image = image.original_image

\* C10 (as stated): an apply_filter call that returns False leaves the
\* image, both stacks and the log as they were; one that returns True adds
\* one undo entry and one log entry.
C10_ApplyIsAllOrNothing ==
    \A in \in ApplyInputs :
        LET r == apply_filter(registry, image, undo_stack, redo_stack, history,
                              in[1], in[2])
        IN IF r.ok
           THEN /\ Len(r.undo_stack) = Len(undo_stack) + 1
                /\ Len(r.history) = Len(history) + 1
           ELSE /\ r.image = image
                /\ r.undo_stack = undo_stack
                /\ r.redo_stack = redo_stack
                /\ r.history = history

\* The transform of filter_key raises on the current buffer.
Raises(filter_key, kw) ==
    /\ image # None
    /\ get_filter(registry, filter_key) # None
    /\ apply(get_filter(registry, filter_key), image.current_image, kw) = Raise

\* C11: when the transform raises inside apply_filter, the call returns
\* False and the undo stack and the current buffer after the call equal
\* those before it.
C11_RaisingApplyKeepsUndoAndBuffer ==
    \A in \in ApplyInputs :
        Raises(in[1], in[2]) =>
            LET r == apply_filter(registry, image, undo_stack, redo_stack, history,
                                  in[1], in[2])
            IN /\ ~r.ok
               /\ r.undo_stack = undo_stack
               /\ r.image.current_image = image.current_image

\* C11 witness: a resize raised (a dimension of the target was 0) while the
\* undo stack held snapshots, and the call returned False.
C11_Witness ==
    /\ last = Last("apply", FALSE, "resize")
    /\ undo_stack # <<>>
    /\ image.current_image.h = 1

\* C12: apply_filter with a key that is not registered returns False and
\* leaves the undo stack and the image object, hence the current buffer, as
\* they were.
C12_UnknownKeyFails ==
    \A in \in ApplyInputs :
        in[1] \notin DOMAIN registry =>
            LET r == apply_filter(registry, image, undo_stack, redo_stack, history,
                                  in[1], in[2])
            IN /\ ~r.ok
               /\ Len(r.undo_stack) = Len(undo_stack)
               /\ r.undo_stack = undo_stack
               /\ r.image = image

\* C12 witness: apply_filter("sharpen") was called on an edited image and
\* returned False.
C12_Witness ==
    /\ last = Last("apply", FALSE, "sharpen")
    /\ undo_stack # <<>>
    /\ image.current_image # image.original_image

\* C13: when _open_image installs a new Image, both stacks are empty
\* afterwards and undo and redo return False; and the stacks stay empty
\* under every handler but an apply_filter call that returns True.
C13_NewDocumentClearsStacks ==
    [][/\ last' = Last("open", TRUE, "")
            => /\ undo_stack' = <<>>
               /\ redo_stack' = <<>>
               /\ ~undo(image', undo_stack', redo_stack', history').ok
               /\ ~redo(image', undo_stack', redo_stack', history').ok
       /\ (undo_stack = <<>> /\ redo_stack = <<>> /\ ~(last'.op = "apply" /\ last'.ok))
            => (undo_stack' = <<>> /\ redo_stack' = <<>>)]_vars

\* C13 witness: an image was opened in a session that had already
\* recorded two edits.
C13_Witness ==
    /\ last = Last("open", TRUE, "")
    /\ Len(history) = 2
    /\ undo_stack = <<>>
    /\ redo_stack = <<>>

\* C14 (as stated): after _open_image installed a new Image the operation
\* log is empty.
C14_NewDocumentClearsLog ==
    last = Last("open", TRUE, "") => history = <<>>

\* C15: undo returns False and changes nothing when the undo stack is empty
\* or no image is set; otherwise it returns True, appends the buffer that
\* was current to the redo stack and makes the popped top of the undo stack
\* the current buffer.
C15_UndoContract ==
    LET r == undo(image, undo_stack, redo_stack, history) IN
    IF undo_stack = <<>> \/ image = None
    THEN /\ ~r.ok
         /\ r.image = image
         /\ r.undo_stack = undo_stack
         /\ r.redo_stack = redo_stack
         /\ r.history = history
    ELSE /\ r.ok
         /\ r.redo_stack = redo_stack \o <<image.current_image>>
         /\ r.undo_stack \o <<r.image.current_image>> = undo_stack

\* C15 witness: an undo returned True with entries left on the undo stack
\* and moved an edited buffer to the redo stack.
C15_Witness ==
    /\ last = Last("undo", TRUE, "")
    /\ undo_stack # <<>>
    /\ redo_stack # <<>>
    /\ image.current_image # image.original_image

\* C16: from any state in which undo returns True, undo followed by redo
\* gives back the current buffer, the undo stack and the redo stack (and the
\* whole state of the application); redo returns False and changes nothing
\* when the redo stack is empty.
C16_RedoInvertsUndo ==
    LET u == undo(image, undo_stack, redo_stack, history)
        r == redo(u.image, u.undo_stack, u.redo_stack, u.history)
        e == redo(image, undo_stack, redo_stack, history)
    IN /\ u.ok => /\ r.ok
                  /\ r.image.current_image = image.current_image
                  /\ r.undo_stack = undo_stack
                  /\ r.redo_stack = redo_stack
                  /\ \A exposed \in Exposures :
                         gui_redo(gui_undo(Cur, exposed), exposed) = Cur
       /\ redo_stack = <<>> => /\ ~e.ok
                               /\ e.image = image
                               /\ e.undo_stack = undo_stack
                               /\ e.redo_stack = redo_stack

\* C16 witness: a redo right after an undo brought the edited buffer back
\* and emptied the redo stack.
C16_Witness ==
    /\ last = Last("redo", TRUE, "")
    /\ redo_stack = <<>>
    /\ Len(undo_stack) = 1
    /\ Len(history) = 1
    /\ image.current_image # undo_stack[1]

\* A stack changed at its top only, or was emptied.
TopOnly(old, new) == new = <<>> \/ IsPrefix(old, new) \/ IsPrefix(new, old)

\* C17: after N apply_filter calls that returned True and produced the
\* buffers b1..bN from b0, the k-th consecutive undo makes b(N-k) current and
\* the j-th redo after k undos makes b(N-k+j) current; and every handler
\* changes each stack at its top only (or empties it), so entries are never
\* reordered.
C17_StrictLifo ==
    /\ [](image # None =>
            \A ins \in InputSeqsLeft :
                AllOk(Cur, ins) =>
                    LET N == Len(ins)
                        b == StatesAfter(Cur, ins)
                    IN \A k \in 1..N :
                           LET u == UndoN(b[N + 1], k) IN
                           /\ u.image.current_image = b[N - k + 1].image.current_image
                           /\ \A j \in 1..k :
                                  RedoN(u, j).image.current_image
                                      = b[N - k + j + 1].image.current_image)
    /\ [][TopOnly(undo_stack, undo_stack') /\ TopOnly(redo_stack, redo_stack')]_vars

\* C17 witness: two applies produced different buffers, the last one was
\* undone and redone, and the undo stack holds b0 and b1 in that order.
C17_Witness ==
    /\ last = Last("redo", TRUE, "")
    /\ redo_stack = <<>>
    /\ Len(undo_stack) = 2
    /\ undo_stack[1] = image.original_image
    /\ undo_stack[1] # undo_stack[2]
    /\ image.current_image # undo_stack[2]

\* C18 (as stated): a capacity bounds both stacks whatever the number of
\* edits: in a session of MaxSteps handler calls, the first of which opens
\* the image, neither stack comes to hold the MaxSteps - 1 entries that as
\* many committed edits would make.
C18_StacksBounded ==
    /\ Len(undo_stack) + 1 < MaxSteps
    /\ Len(redo_stack) + 1 < MaxSteps

\* What C19 says of the calls other than clear_history: an apply_filter call
\* that returns True appends exactly one entry, made of the filter's name
\* and the parameters of the call; add_to_history appends the line it is
\* given; every other operation (undo, redo and failed applies among them)
\* leaves the log as it was.
LogStep ==
    IF last'.op = "apply" /\ last'.ok
    THEN /\ Len(history') = Len(history) + 1
         /\ IsPrefix(history, history')
         /\ \E in \in ApplyInputs :
                /\ in[1] = last'.arg
                /\ history'[Len(history')] = operation(get_filter(registry, in[1]), in[2])
    ELSE IF last'.op = "add_to_history"
    THEN history' = history \o <<Note>>
    ELSE history' = history

\* C19 (as stated): every operation leaves the previous log as a prefix of
\* the new log; an apply_filter call that returns True appends exactly one
\* entry; undo, redo and failed applies leave the log as it was.
C19_LogAppendOnlyEveryOperation ==
    [][IsPrefix(history, history') /\ (last'.op # "clear_history" => LogStep)]_vars

\* C19 (amended): every operation but an explicit clear_history call leaves
\* the previous log as a prefix of the new log, with exactly one entry
\* appended by an apply_filter call that returns True and nothing appended,
\* removed or reordered by undo, redo and failed applies; clear_history
\* empties the log.
C19_LogAppendOnly ==
    [][IF last'.op = "clear_history" THEN history' = <<>>
       ELSE IsPrefix(history, history') /\ LogStep]_vars

\* C19 witness: an apply whose transform raised followed two logged edits,
\* and the log holds their two entries in the order of the calls.
C19_Witness ==
    /\ last = Last("apply", FALSE, "resize")
    /\ history = << operation(get_filter(registry, "resize"), [scale |-> 50]),
                    operation(get_filter(registry, "grayscale"), NoKw) >>

\* C20: the original buffer of the Image is the buffer decoded when it was
\* opened: _open_image installs an Image whose original is the decoded file,
\* update_original makes the current buffer the original, and apply, undo,
\* redo, slider movements and their commands, commit, reset and both saves
\* leave the original buffer as it was.
C20_OriginalOnlyRebased ==
    [][IF last' = Last("open", TRUE, "")
       THEN image'.original_image = imread(files, image'.filepath)
       ELSE IF last'.op = "update_original"
       THEN image'.original_image = image.current_image
       ELSE IF image = None THEN image' = None
            ELSE image'.original_image = image.original_image]_vars

\* C20 witness: an edited buffer was saved over the opened file and the
\* original buffer is still the one decoded at load, not the saved one.
C20_Witness ==
    /\ last = Last("save", TRUE, "")
    /\ image.current_image # image.original_image
    /\ files[image.filepath] = image.current_image
    /\ image.original_image = Disk[image.filepath]

\* C21: in every reachable state the width and height of the Image are those
\* of its current buffer; a rotate by 90 of a W x H buffer gives H x W, and
\* the undo that follows gives W x H again.
C21_DimensionsFollowBuffer ==
    image # None => \A exposed \in Exposures :
        LET r == apply_filter_permanent(Cur, "rotate", [angle |-> 90], exposed)
            u == gui_undo(r, exposed)
        IN /\ image.width = image.current_image.w
           /\ image.height = image.current_image.h
           /\ r.image.width = image.height
           /\ r.image.height = image.width
           /\ r.image.current_image.w = image.height
           /\ r.image.current_image.h = image.width
           /\ u.image.width = image.width
           /\ u.image.height = image.height

\* C21 witness: a rotate by 90 of a non-square buffer was undone; the buffer
\* on the redo stack has the dimensions swapped.
C21_Witness ==
    /\ last = Last("undo", TRUE, "")
    /\ image.width # image.height
    /\ redo_stack # <<>>
    /\ redo_stack[Len(redo_stack)].w = image.height
    /\ redo_stack[Len(redo_stack)].h = image.width

\* C22: when the file cannot be decoded and Image(filepath) raises,
\* _open_image installs nothing: the undo stack, the redo stack, the
\* operation log, the baseline and the sliders are as before, and so is the
\* loaded Image but for the slider commands that were queued before the
\* call, which run while its dialogs are open.  With no redraw queued
\* before the call the whole state is as before, but for the redraws that
\* Expose events queue as the error box closes, which call no command.
C22_FailedOpenChangesNothing ==
    \A filepath \in Paths : \A exposed \in Exposures :
        (filepath # "" /\ Image(files, filepath) = Raise) =>
            LET s == open_image(Cur, files, filepath, exposed) IN
            /\ s.undo_stack = undo_stack
            /\ s.redo_stack = redo_stack
            /\ s.history = history
            /\ s.original_for_sliders = original_for_sliders
            /\ s.sliders = sliders
            /\ s.image = update_idletasks(Cur).image
            /\ (image # None) => /\ s.image.filepath = image.filepath
                                 /\ s.image.original_image = image.original_image
            /\ (pending = <<>> /\ exposed = <<>>) => s = Cur
            /\ pending = <<>> => /\ [s EXCEPT !.pending = <<>>] = Cur
                                 /\ \A i \in 1..Len(s.pending) : ~s.pending[i].invoke

\* C22 witness: an open failed in a session with a loaded, edited image
\* and entries on both stacks and in the log.
C22_Witness ==
    /\ last = Last("open", FALSE, "")
    /\ image # None
    /\ undo_stack # <<>>
    /\ redo_stack # <<>>
    /\ history # <<>>

\* The transform of a slider's command raises on the stored baseline.
PreviewRaises(slider, value) ==
    /\ image # None
    /\ original_for_sliders # None
    /\ apply(get_filter(registry, slider), original_for_sliders,
             slider_kw(slider, value)) = Raise

\* C23 (as stated): when the transform of a slider's command raises, the
\* command returns normally, the baseline, both stacks and the log are as
\* before, the current buffer is the last preview computed from the
\* baseline (the transform of the baseline at a position of one of the
\* sliders) or the baseline itself, and a later command whose transform does
\* not raise displays the transform of that same baseline.
C23_RaisingPreviewKeepsLastGood ==
    \A slider \in Sliders : \A value \in SliderValues[slider] :
        PreviewRaises(slider, value) =>
            LET s == command([Cur EXCEPT !.sliders[slider] = value], slider) IN
            /\ s.original_for_sliders = original_for_sliders
            /\ s.undo_stack = undo_stack
            /\ s.redo_stack = redo_stack
            /\ s.history = history
            /\ \/ s.image.current_image = original_for_sliders
               \/ \E slider2 \in Sliders : \E value2 \in SliderValues[slider2] :
                      s.image.current_image
                          = apply(get_filter(registry, slider2), original_for_sliders,
                                  slider_kw(slider2, value2))
            /\ \A slider2 \in Sliders : \A value2 \in SliderValues[slider2] :
                   LET shown == apply(get_filter(registry, slider2), original_for_sliders,
                                      slider_kw(slider2, value2))
                   IN shown # Raise =>
                          command([s EXCEPT !.sliders[slider2] = value2],
                                  slider2).image.current_image = shown

\* C24 (as stated): "Save" and "Save As" leave both stacks, the baseline
\* and the Image as they were (but for the slider commands queued before,
\* which run while the dialogs are open), and report success only when the
\* file holds the buffer that was current at the write (a failed write is
\* reported as an error).
C24_SaveSurfacesFailure ==
    [][(last'.op = "save" \/ last'.op = "save_as")
          => /\ UNCHANGED <<undo_stack, redo_stack, original_for_sliders>>
             /\ image' = update_idletasks(Cur).image
             /\ last'.ok =>
                    IF last'.op = "save"
                    THEN /\ image.filepath \in DOMAIN files'
                         /\ files'[image.filepath] = image.current_image
                    ELSE /\ last'.arg \in DOMAIN files'
                         /\ files'[last'.arg] = image'.current_image]_vars

\* C25: the kernel size of a blur call is the intensity when it is odd and
\* intensity + 1 when it is even, raised to 1 when that is below 1, so it is
\* odd and at least 1 for every integer intensity; an even intensity gives
\* the kernel and the result of the next odd one (4 those of 5).
C25_BlurKernelSize ==
    (call.fn = "blur" /\ call.done) =>
        LET i == call.intensity
            promoted == IF i % 2 = 0 THEN i + 1 ELSE i
        IN /\ call.kernel >= 1
           /\ call.kernel % 2 = 1
           /\ promoted >= 1 => call.kernel = promoted
           /\ promoted < 1 => call.kernel = 1
           /\ i % 2 = 0 => /\ call.kernel = kernel_size(i + 1)
                           /\ call.out = BlurFilter(call.image, i + 1)
           /\ kernel_size(4) = 5
           /\ kernel_size(5) = 5

\* C25 witness: blur was called with intensity 4 on a loaded image, used a
\* kernel of 5 and returned an image.
C25_Witness ==
    /\ call.fn = "blur" /\ call.done
    /\ call.intensity = 4
    /\ call.kernel = 5
    /\ call.out = call.image
    /\ call.image.w > 0

\* Scale factors in percent that a float holds exactly.
ExactScales == {25, 50, 100, 150, 200}

\* trunc of the product of a size and a float scale factor, given trunc of
\* the product with the percent it was written as: the same for a factor
\* the float holds exactly; else the same or, when that product is whole
\* and the float is below the percent, one less.
Truncated(d, size, scale) ==
    IF scale \in ExactScales \/ (size * scale) % 100 # 0
    THEN d = (size * scale) \div 100
    ELSE d \in {(size * scale) \div 100 - 1, (size * scale) \div 100}

\* C26: a resize call returns an image of (width, height) when both are
\* given and not 0, whatever the scale; otherwise of the truncated float
\* products (trunc(W * scale), trunc(H * scale)), and it raises when one of
\* these is 0.  Scale 0.5 on 100 x 100 gives 50 x 50 and scale 2.0 on that
\* gives 100 x 100; scale 0.57 on 100 x 100 gives 56 x 56, the product
\* being 56.99999999999999.
C26_ResizeDimensions ==
    (call.fn = "resize" /\ call.done) =>
        LET W == call.image.w
            H == call.image.h
            half == ResizeFilter(Buf(100, 100, <<40, 120, 200>>), 0, 0, 50)
            back == ResizeFilter(half, 0, 0, 200)
            part == ResizeFilter(Buf(100, 100, <<40, 120, 200>>), 0, 0, 57)
        IN /\ IF call.width # 0 /\ call.height # 0
              THEN call.out.w = call.width /\ call.out.h = call.height
              ELSE IF call.out = Raise
                   THEN \/ Truncated(0, W, call.scale)
                        \/ Truncated(0, H, call.scale)
                   ELSE /\ call.out.w >= 1 /\ Truncated(call.out.w, W, call.scale)
                        /\ call.out.h >= 1 /\ Truncated(call.out.h, H, call.scale)
           /\ half.w = 50 /\ half.h = 50
           /\ back.w = 100 /\ back.h = 100
           /\ part.w = 56 /\ part.h = 56

\* C26 witness: a 3 x 50 image was resized by 0.5 with only a width given;
\* the scale was used and 1.5 truncated to 1.
C26_Witness ==
    /\ call.fn = "resize" /\ call.done
    /\ call.image.w = 3 /\ call.image.h = 50
    /\ call.width = 7 /\ call.height = 0
    /\ call.scale = 50
    /\ call.out.w = 1 /\ call.out.h = 25

\* The orders in which the four adjustments can be combined.
SliderOrders == {o \in [1..4 -> Sliders] : \A i, j \in 1..4 : o[i] = o[j] => i = j}

\* The baseline with the adjustment of every slider that is away from its
\* default applied, in the given order (Raise as soon as one raises).
RECURSIVE Adjusted(_, _, _)
Adjusted(buffer, sl, order) ==
    IF order = <<>> \/ buffer = Raise THEN buffer
    ELSE LET slider == Head(order) IN
         Adjusted(IF sl[slider] = SliderDefaults[slider] THEN buffer
                  ELSE apply(get_filter(registry, slider), buffer,
                             slider_kw(slider, sl[slider])),
                  sl, Tail(order))

\* C27 (as stated): after "Apply All" pressed during a slider gesture, the
\* current buffer is the baseline of the gesture with the adjustments of all
\* the sliders that were away from their defaults applied, in some order.
C27_CommitReflectsEverySlider ==
    [][(last.op = "preview" /\ last.ok /\ last' = Last("commit", TRUE, ""))
          => \E order \in SliderOrders :
                 image'.current_image = Adjusted(original_for_sliders, sliders, order)]_vars

\* C28: when no image is set both stacks are empty; hence can_undo() is
\* true exactly when undo() would return True, and can_redo() exactly when
\* redo() would.
C28_CanUndoMatchesUndo ==
    /\ image = None => (undo_stack = <<>> /\ redo_stack = <<>>)
    /\ can_undo(undo_stack) = undo(image, undo_stack, redo_stack, history).ok
    /\ can_redo(redo_stack) = redo(image, undo_stack, redo_stack, history).ok

\* C28 witness: the only edit was undone: nothing is left to undo and one
\* buffer can be redone.
C28_Witness ==
    /\ last = Last("undo", TRUE, "")
    /\ ~can_undo(undo_stack)
    /\ can_redo(redo_stack)
    /\ Len(redo_stack) = 1
    /\ Len(history) = 1

\* C29 (as stated): while a slider preview that differs from the baseline
\* is displayed, a successful apply_filter, undo or redo does not push that
\* uncommitted buffer onto the undo or the redo stack.
C29_PreviewNeverOnStacks ==
    [][(/\ last.op = "preview" /\ last.ok
        /\ image.current_image # original_for_sliders
        /\ last'.op \in {"apply", "undo", "redo"} /\ last'.ok)
          => /\ Len(undo_stack') > Len(undo_stack)
                    => undo_stack'[Len(undo_stack')] # image.current_image
             /\ Len(redo_stack') > Len(redo_stack)
                    => redo_stack'[Len(redo_stack')] # image.current_image]_vars

\* C30 (as stated): in the standalone ImageProcessor, a rotate or flip call
\* that raises leaves the current image and the undo history as they were.
C30_RaisingOperationKeepsHistory ==
    [][((last'.op = "rotate" \/ last'.op = "flip") /\ ~last'.ok)
          => /\ processor'.current_image = processor.current_image
             /\ processor'.history = processor.history]_vars

====
